---- MODULE Spec2Model ----
(***************************************************************************)
(* PersistentSafetyStorage (consensus/safety-rules): the storage handle    *)
(* that keeps a validator's safety data, keys, owner account and waypoint  *)
(* in a secure backend, with an optional in-memory copy of the safety      *)
(* data.  Every public method is one action; a backend request inside a    *)
(* method succeeds or fails as chosen by the action's `fail` input.        *)
(***************************************************************************)
EXTENDS Integers, Sequences, FiniteSets, TLC

\* ---------------------------------------------------------------- bounds
MaxEpoch == 2
MaxVersion == 1

\* ------------------------------------------------------- Option<T> values
\* Option<T> is the set of at most one element: None = {}, Some(x) = {x}.
None == {}
Some(x) == {x}
IsSome(o) == o # {}
Unwrap(o) == CHOOSE x \in o : TRUE

\* ------------------------------------------------------------ record names
CONSENSUS_KEY == "consensus"
EXECUTION_KEY == "execution"
OWNER_ACCOUNT == "owner_account"
SAFETY_DATA == "safety_data"
WAYPOINT == "waypoint"
RecordNames == {CONSENSUS_KEY, EXECUTION_KEY, OWNER_ACCOUNT, SAFETY_DATA, WAYPOINT}

\* ------------------------------------------------------------------ values
Authors == {"A1", "A2"}
ConsensusKeys == {"K1"}
ExecutionKeys == {"K2"}

SafetyDataNew(epoch, last_voted_round, preferred_round, one_chain_round, last_vote) ==
    [epoch |-> epoch, last_voted_round |-> last_voted_round,
     preferred_round |-> preferred_round, one_chain_round |-> one_chain_round,
     last_vote |-> last_vote]

\* A vote record is identified by the epoch and round it was cast in.
VoteAt(e, r) == [vote_epoch |-> e, vote_round |-> r]

\* SafetyData::new(1, 0, 0, 0, None), the record initialize writes.
DefaultSafetyData_EpochZero == SafetyDataNew(0, 0, 0, 0, None)

DefaultSafetyData == SafetyDataNew(1, 0, 0, 0, None)

\* The safety data of a validator that is in epoch e: every field but the
\* epoch of the first one differs from the default record.
SafetyDataAt(e) ==
    IF e = 1 THEN DefaultSafetyData
    ELSE SafetyDataNew(e, e + 1, e, e - 1, Some(VoteAt(e, e + 1)))

\* The safety data the callers write.
SafetyDataValues == {SafetyDataAt(e) : e \in 1..MaxEpoch}

\* A waypoint is a version and the digest of the ledger info of that version.
WaypointNew(version) == [version |-> version, digest |-> <<"hash", version>>]
Waypoints == {WaypointNew(v) : v \in 0..MaxVersion}

\* The sets of backend requests of one initialize call that fail with an
\* error other than KeyAlreadyExists: none, one request, or the import of
\* the consensus key and one later request.
FailureSets ==
    {{}} \cup {{n} : n \in RecordNames}
         \cup {{CONSENSUS_KEY, n} : n \in RecordNames \ {CONSENSUS_KEY}}

\* ------------------------------------------------------------------ events
\* What one method call does towards its collaborators, in program order.
BackendCall(kind, name, outcome) ==
    [ev |-> "backend", kind |-> kind, name |-> name, outcome |-> outcome, v |-> 0]
LogEntry(level, what, v) ==
    [ev |-> "log", kind |-> level, name |-> what, outcome |-> "emitted", v |-> v]

Outcome(fail) == IF fail THEN "err" ELSE "ok"

VARIABLES
    alive,                      \* an instance exists (constructor returned)
    enable_cached_safety_data,  \* field of the instance
    cached_safety_data,         \* field of the instance: Option<SafetyData>
    internal_store,             \* the backend: record name -> Option<value>
    gauges,                     \* the process-wide counters
    lastOp,                     \* the call that completed last
    prevOp,                     \* the write a read came right after, in brief
    held                        \* every SafetyData the backend has stored

vars == <<alive, enable_cached_safety_data, cached_safety_data, internal_store,
          gauges, lastOp, prevOp, held>>

\* What a call does to the in-memory copy, in program order, together with
\* the backend answers that confirm a safety-data record: the copy is assigned
\* `o`; the backend accepted a write of `o` or returned `o` from a read.
CacheIs(o) == [ev |-> "cache", value |-> o]
Confirmed(o) == [ev |-> "confirmed", value |-> o]

\* A call: its name, input, result, returned value, its events and its trace
\* on the in-memory copy.
OpT(op, arg, result, value, events, trace) ==
    [op |-> op, arg |-> arg, result |-> result, value |-> value, events |-> events,
     trace |-> trace]

\* A call that does not touch the in-memory copy.
Op(op, arg, result, value, events) ==
    OpT(op, arg, result, value, events, <<>>)

NoOp == Op("none", None, "ok", None, <<>>)

\* What is remembered of a call once the next one has completed.
Brief(o) == [op |-> o.op, arg |-> o.arg, result |-> o.result]

\* A read remembers the call it came right after when that call was one of
\* `writes`; no other call remembers its predecessor.
After(o, writes) == IF o.op \in writes THEN Brief(o) ELSE Brief(NoOp)

Init ==
    /\ alive = FALSE
    /\ enable_cached_safety_data = FALSE
    /\ cached_safety_data = None
    /\ internal_store = [n \in RecordNames |-> None]
    /\ gauges = [epoch |-> 0, last_voted_round |-> 0, preferred_round |-> 0,
                 waypoint_version |-> 0]
    /\ lastOp = NoOp
    /\ prevOp = Brief(NoOp)
    /\ held = {}

\* The instance as a value: the three fields of the struct.
Self == [enable_cached_safety_data |-> enable_cached_safety_data,
         cached_safety_data |-> cached_safety_data,
         internal_store |-> internal_store]

\* ------------------------------------------------------------ set_safety_data
\* Mutants of CacheAfterWrite: a failed write leaves the cache as it was; the
\* cache takes the data whatever the backend answered; an accepted write
\* leaves the cache as it was.
CacheAfterWrite_SwappedArms(written, data, cached) ==
    IF written THEN None ELSE Some(data)

CacheAfterWrite_KeepOnFailure(written, data, cached) ==
    IF written THEN Some(data) ELSE cached

CacheAfterWrite_Unconditional(written, data, cached) ==
    Some(data)

CacheAfterWrite_StaleOnSuccess(written, data, cached) ==
    IF written THEN cached ELSE None

\* The cache after the backend answered the write.
CacheAfterWrite(written, data, cached) ==
    IF written THEN Some(data) ELSE None

\* The counters hold i64: `as i64` keeps every value below 2^63, and all
\* epochs, rounds and versions here are.
\* The counters set_safety_data exports before it writes.
SafetyDataGauges_SwapRounds(g, data) ==
    [g EXCEPT !.epoch = data.epoch,
              !.last_voted_round = data.preferred_round,
              !.preferred_round = data.last_voted_round]

SafetyDataGauges(g, data) ==
    [g EXCEPT !.epoch = data.epoch,
              !.last_voted_round = data.last_voted_round,
              !.preferred_round = data.preferred_round]

\* Mutant of SetSafetyData: the cache is assigned before the write and a
\* failed write returns the error without invalidating it.
SetSafetyData_CacheOnlyWhenEnabled(self, g, data, fail) ==
    LET cache == IF self.enable_cached_safety_data
                 THEN CacheAfterWrite(~fail, data, self.cached_safety_data)
                 ELSE None
    IN  [self |-> [self EXCEPT
                      !.internal_store[SAFETY_DATA] = IF fail THEN @ ELSE Some(data),
                      !.cached_safety_data = cache],
         gauges |-> SafetyDataGauges(g, data),
         events |-> <<BackendCall("set", SAFETY_DATA, Outcome(fail))>>,
         trace |-> (IF fail THEN <<>> ELSE <<Confirmed(Some(data))>>) \o <<CacheIs(cache)>>,
         result |-> Outcome(fail)]

SetSafetyData_CacheBeforeWrite(self, g, data, fail) ==
    [self |-> [self EXCEPT
                  !.internal_store[SAFETY_DATA] = IF fail THEN @ ELSE Some(data),
                  !.cached_safety_data = Some(data)],
     gauges |-> SafetyDataGauges(g, data),
     events |-> <<BackendCall("set", SAFETY_DATA, Outcome(fail))>>,
     trace |-> <<CacheIs(Some(data))>>,
     result |-> Outcome(fail)]

\* set_safety_data as a function of the instance: the instance and counters
\* after the call, the events of the call and its result.
SetSafetyData(self, g, data, fail) ==
    [self |-> [self EXCEPT
                  !.internal_store[SAFETY_DATA] = IF fail THEN @ ELSE Some(data),
                  !.cached_safety_data = CacheAfterWrite(~fail, data, @)],
     gauges |-> SafetyDataGauges(g, data),
     events |-> <<BackendCall("set", SAFETY_DATA, Outcome(fail))>>,
     trace |-> (IF fail THEN <<>> ELSE <<Confirmed(Some(data))>>)
               \o <<CacheIs(CacheAfterWrite(~fail, data, self.cached_safety_data))>>,
     result |-> Outcome(fail)]

set_safety_data(data, fail) ==
    /\ alive
    /\ LET r == SetSafetyData(Self, gauges, data, fail) IN
        /\ internal_store' = r.self.internal_store
        /\ cached_safety_data' = r.self.cached_safety_data
        /\ gauges' = r.gauges
        /\ held' = IF fail THEN held ELSE held \cup {data}
        /\ lastOp' = OpT("set_safety_data", Some(data), r.result, None, r.events,
                         r.trace)
    /\ prevOp' = Brief(NoOp)
    /\ UNCHANGED <<alive, enable_cached_safety_data>>

\* ------------------------------------------------------------ safety_data
\* Mutants of ServeFromCache: the enable flag is not consulted; the copy is
\* never used.
ServeFromCache_IgnoreFlag(enable, cached) ==
    IsSome(cached)

ServeFromCache_Never(enable, cached) ==
    FALSE

\* Whether safety_data answers from the in-memory copy.
ServeFromCache(enable, cached) ==
    enable /\ IsSome(cached)

\* The outcome of internal_store.get(name): an error when the backend fails
\* or holds no record under the name.
GetOutcome(store, name, fail) ==
    IF fail \/ store[name] = None THEN "err" ELSE "ok"

SafetyData_NoFill(self, fail) ==
    LET got == GetOutcome(self.internal_store, SAFETY_DATA, fail)
        read == <<BackendCall("get", SAFETY_DATA, got)>>
        stored == self.internal_store[SAFETY_DATA]
    IN  IF ServeFromCache(self.enable_cached_safety_data, self.cached_safety_data)
        THEN [self |-> self, events |-> <<>>, result |-> "ok", trace |-> <<>>,
              value |-> self.cached_safety_data]
        ELSE IF got = "ok"
        THEN [self |-> self, trace |-> <<Confirmed(stored)>>,
              events |-> read, result |-> "ok", value |-> stored]
        ELSE [self |-> self, events |-> read, result |-> "err", trace |-> <<>>,
              value |-> None]

\* safety_data as a function of the instance: a hit answers from the
\* in-memory copy; otherwise the backend is read, and the value it returns
\* is kept when caching is enabled.
SafetyData(self, fail) ==
    LET got == GetOutcome(self.internal_store, SAFETY_DATA, fail)
        read == <<BackendCall("get", SAFETY_DATA, got)>>
        stored == self.internal_store[SAFETY_DATA]
    IN  IF ServeFromCache(self.enable_cached_safety_data, self.cached_safety_data)
        THEN [self |-> self, events |-> <<>>, result |-> "ok", trace |-> <<>>,
              value |-> self.cached_safety_data]
        ELSE IF got = "ok"
        THEN [self |-> IF self.enable_cached_safety_data
                       THEN [self EXCEPT !.cached_safety_data = stored]
                       ELSE self,
              trace |-> IF self.enable_cached_safety_data
                        THEN <<Confirmed(stored), CacheIs(stored)>>
                        ELSE <<Confirmed(stored)>>,
              events |-> read, result |-> "ok", value |-> stored]
        ELSE [self |-> self, events |-> read, result |-> "err", trace |-> <<>>,
              value |-> None]

safety_data(fail) ==
    /\ alive
    /\ LET r == SafetyData(Self, fail) IN
        /\ internal_store' = r.self.internal_store
        /\ cached_safety_data' = r.self.cached_safety_data
        /\ lastOp' = OpT("safety_data", Some(fail), r.result, r.value, r.events,
                         r.trace)
    /\ prevOp' = After(lastOp, {"set_safety_data", "external_write", "initialize"})
    /\ UNCHANGED <<alive, enable_cached_safety_data, gauges, held>>

\* ------------------------------------------------------------ waypoint
waypoint(fail) ==
    /\ alive
    /\ LET got == GetOutcome(internal_store, WAYPOINT, fail) IN
        lastOp' = Op("waypoint", Some(fail), got,
                     IF got = "ok" THEN internal_store[WAYPOINT] ELSE None,
                     <<BackendCall("get", WAYPOINT, got)>>)
    /\ prevOp' = After(lastOp, {"set_waypoint", "initialize"})
    /\ UNCHANGED <<alive, enable_cached_safety_data, cached_safety_data,
                   internal_store, gauges, held>>

\* Mutant of WaypointGauge: the counter is not exported.
WaypointGauge_NotExported(g, w) ==
    g

\* The counter set_waypoint exports before it writes.
WaypointGauge(g, w) ==
    [g EXCEPT !.waypoint_version = w.version]

\* Mutant of SetWaypointEvents: the audit record is emitted before the write,
\* whatever its outcome.
SetWaypointEvents_RetryOnce(w, fail) ==
    IF fail
    THEN <<BackendCall("set", WAYPOINT, "err"), BackendCall("set", WAYPOINT, "err")>>
    ELSE <<BackendCall("set", WAYPOINT, "ok"), LogEntry("info", "waypoint_update", w.version)>>

SetWaypointEvents_LogFirst(w, fail) ==
    <<LogEntry("info", "waypoint_update", w.version),
      BackendCall("set", WAYPOINT, Outcome(fail))>>

\* What set_waypoint does after the counter: the write, then, if the write
\* was accepted, the audit record.
SetWaypointEvents(w, fail) ==
    IF fail
    THEN <<BackendCall("set", WAYPOINT, "err")>>
    ELSE <<BackendCall("set", WAYPOINT, "ok"), LogEntry("info", "waypoint_update", w.version)>>

SetWaypoint_InvalidatesCache(self, g, w, fail) ==
    [self |-> [self EXCEPT
                  !.internal_store[WAYPOINT] = IF fail THEN @ ELSE Some(w),
                  !.cached_safety_data = None],
     gauges |-> WaypointGauge(g, w),
     events |-> SetWaypointEvents(w, fail),
     result |-> Outcome(fail)]

\* set_waypoint as a function of the instance.
SetWaypoint(self, g, w, fail) ==
    [self |-> [self EXCEPT
                  !.internal_store[WAYPOINT] = IF fail THEN @ ELSE Some(w)],
     gauges |-> WaypointGauge(g, w),
     events |-> SetWaypointEvents(w, fail),
     result |-> Outcome(fail)]

set_waypoint(w, fail) ==
    /\ alive
    /\ LET r == SetWaypoint(Self, gauges, w, fail) IN
        /\ internal_store' = r.self.internal_store
        /\ cached_safety_data' = r.self.cached_safety_data
        /\ gauges' = r.gauges
        /\ lastOp' = Op("set_waypoint", Some(w), r.result, None, r.events)
    /\ prevOp' = Brief(NoOp)
    /\ UNCHANGED <<alive, enable_cached_safety_data, held>>

\* ------------------------------------------------------------ author
author(fail) ==
    /\ alive
    /\ LET got == GetOutcome(internal_store, OWNER_ACCOUNT, fail) IN
        lastOp' = Op("author", Some(fail), got,
                     IF got = "ok" THEN internal_store[OWNER_ACCOUNT] ELSE None,
                     <<BackendCall("get", OWNER_ACCOUNT, got)>>)
    /\ prevOp' = After(lastOp, {"initialize"})
    /\ UNCHANGED <<alive, enable_cached_safety_data, cached_safety_data,
                   internal_store, gauges, held>>

\* ------------------------------------------------------------ keys
\* A key version is named by the public key of the private key.
PublicKey(k) == <<"pub", k>>
Signature(k, message) == <<"sig", k, message>>
KeyNames == {CONSENSUS_KEY, EXECUTION_KEY}
KeyVersions == {PublicKey(k) : k \in ConsensusKeys \cup ExecutionKeys}
Messages == {"m1"}

\* The backend's answer to a request for the version `version` of the key
\* `name`: an error when the backend fails, holds no such key, or holds
\* another version of it.
KeyOutcome(store, name, version, fail) ==
    IF fail \/ store[name] = None \/ PublicKey(Unwrap(store[name])) # version
    THEN "err" ELSE "ok"

consensus_key_for_version(version, fail) ==
    /\ alive
    /\ LET got == KeyOutcome(internal_store, CONSENSUS_KEY, version, fail) IN
        lastOp' = Op("consensus_key_for_version", Some(version), got,
                     IF got = "ok" THEN internal_store[CONSENSUS_KEY] ELSE None,
                     <<BackendCall("export", CONSENSUS_KEY, got)>>)
    /\ prevOp' = Brief(NoOp)
    /\ UNCHANGED <<alive, enable_cached_safety_data, cached_safety_data,
                   internal_store, gauges, held>>

execution_public_key(fail) ==
    /\ alive
    /\ LET got == GetOutcome(internal_store, EXECUTION_KEY, fail) IN
        lastOp' = Op("execution_public_key", Some(fail), got,
                     IF got = "ok"
                     THEN Some(PublicKey(Unwrap(internal_store[EXECUTION_KEY])))
                     ELSE None,
                     <<BackendCall("get_public_key", EXECUTION_KEY, got)>>)
    /\ prevOp' = After(lastOp, {"initialize"})
    /\ UNCHANGED <<alive, enable_cached_safety_data, cached_safety_data,
                   internal_store, gauges, held>>

sign(key_name, key_version, message, fail) ==
    /\ alive
    /\ LET got == KeyOutcome(internal_store, key_name, key_version, fail) IN
        lastOp' = Op("sign", Some([key_name |-> key_name, key_version |-> key_version]),
                     got,
                     IF got = "ok"
                     THEN Some(Signature(Unwrap(internal_store[key_name]), message))
                     ELSE None,
                     <<BackendCall("sign", key_name, got)>>)
    /\ prevOp' = Brief(NoOp)
    /\ UNCHANGED <<alive, enable_cached_safety_data, cached_safety_data,
                   internal_store, gauges, held>>

InitializeKeysAndAccounts_OwnerNotWritten(store, a, ck, ek, fails) ==
    LET r1 == IF CONSENSUS_KEY \in fails THEN "err"
              ELSE IF IsSome(store[CONSENSUS_KEY]) THEN "exists" ELSE "ok"
        s1 == IF r1 = "ok" THEN [store EXCEPT ![CONSENSUS_KEY] = Some(ck)] ELSE store
        e1 == <<BackendCall("import", CONSENSUS_KEY, r1)>>
        r2 == IF EXECUTION_KEY \in fails THEN "err"
              ELSE IF IsSome(s1[EXECUTION_KEY]) THEN "exists" ELSE "ok"
        s2 == IF r2 = "ok" THEN [s1 EXCEPT ![EXECUTION_KEY] = Some(ek)] ELSE s1
        e2 == Append(e1, BackendCall("import", EXECUTION_KEY, r2))
        r3 == Outcome(OWNER_ACCOUNT \in fails)
        s3 == s2
        e3 == Append(e2, BackendCall("set", OWNER_ACCOUNT, r3))
    IN  IF r1 = "exists"
        THEN [store |-> store, result |-> "ok",
              events |-> Append(e1, LogEntry("warn", "reinitialize", 0))]
        ELSE IF r2 # "ok"
        THEN [store |-> s2, result |-> "err", events |-> e2]
        ELSE [store |-> s3, result |-> r3, events |-> e3]

\* ------------------------------------------------------------ initialize
\* initialize_keys_and_accounts as a function of the backend: the backend
\* after the call, the events of the call and its result.
InitializeKeysAndAccounts(store, a, ck, ek, fails) ==
    LET r1 == IF CONSENSUS_KEY \in fails THEN "err"
              ELSE IF IsSome(store[CONSENSUS_KEY]) THEN "exists" ELSE "ok"
        s1 == IF r1 = "ok" THEN [store EXCEPT ![CONSENSUS_KEY] = Some(ck)] ELSE store
        e1 == <<BackendCall("import", CONSENSUS_KEY, r1)>>
        r2 == IF EXECUTION_KEY \in fails THEN "err"
              ELSE IF IsSome(s1[EXECUTION_KEY]) THEN "exists" ELSE "ok"
        s2 == IF r2 = "ok" THEN [s1 EXCEPT ![EXECUTION_KEY] = Some(ek)] ELSE s1
        e2 == Append(e1, BackendCall("import", EXECUTION_KEY, r2))
        r3 == Outcome(OWNER_ACCOUNT \in fails)
        s3 == IF r3 = "ok" THEN [s2 EXCEPT ![OWNER_ACCOUNT] = Some(a)] ELSE s2
        e3 == Append(e2, BackendCall("set", OWNER_ACCOUNT, r3))
    IN  IF r1 = "exists"
        THEN [store |-> store, result |-> "ok",
              events |-> Append(e1, LogEntry("warn", "reinitialize", 0))]
        ELSE IF r2 # "ok"
        THEN [store |-> s2, result |-> "err", events |-> e2]
        ELSE [store |-> s3, result |-> r3, events |-> e3]

\* The call ended in a panic: no instance is returned.
Panicked(store, g, events, trace) ==
    [alive |-> FALSE,
     self |-> [enable_cached_safety_data |-> FALSE, cached_safety_data |-> None,
               internal_store |-> store],
     gauges |-> g, events |-> events, trace |-> trace, result |-> "panic"]

\* initialize as a function of the backend and the counters.
Initialize(store, g, a, ck, ek, w, enable, fails) ==
    LET k == InitializeKeysAndAccounts(store, a, ck, ek, fails)
        self0 == [enable_cached_safety_data |-> enable,
                  cached_safety_data |-> Some(DefaultSafetyData),
                  internal_store |-> k.store]
        s == SetSafetyData(self0, g, DefaultSafetyData, SAFETY_DATA \in fails)
        p == SetWaypoint(s.self, s.gauges, w, WAYPOINT \in fails)
        built == <<CacheIs(self0.cached_safety_data)>>
    IN  IF k.result # "ok"
        THEN Panicked(k.store, g, k.events, <<>>)
        ELSE IF s.result # "ok"
        THEN Panicked(s.self.internal_store, s.gauges, k.events \o s.events,
                      built \o s.trace)
        ELSE IF p.result # "ok"
        THEN Panicked(p.self.internal_store, p.gauges, k.events \o s.events \o p.events,
                      built \o s.trace)
        ELSE [alive |-> TRUE, self |-> p.self, gauges |-> p.gauges,
              events |-> k.events \o s.events \o p.events,
              trace |-> built \o s.trace, result |-> "ok"]

initialize(a, ck, ek, w, enable, fails) ==
    /\ ~alive
    /\ LET r == Initialize(internal_store, gauges, a, ck, ek, w, enable, fails) IN
        /\ alive' = r.alive
        /\ enable_cached_safety_data' = r.self.enable_cached_safety_data
        /\ cached_safety_data' = r.self.cached_safety_data
        /\ internal_store' = r.self.internal_store
        /\ gauges' = r.gauges
        /\ held' = held \cup r.self.internal_store[SAFETY_DATA]
        /\ lastOp' = OpT("initialize", Some([author |-> a, waypoint |-> w]),
                         r.result, None, r.events, r.trace)
    /\ prevOp' = Brief(NoOp)

\* ------------------------------------------------------------ new
new_WarmCache(enable) ==
    /\ ~alive
    /\ alive' = TRUE
    /\ enable_cached_safety_data' = enable
    /\ cached_safety_data' = Some(DefaultSafetyData)
    /\ lastOp' = OpT("new", None, "ok", None, <<>>, <<CacheIs(Some(DefaultSafetyData))>>)
    /\ prevOp' = Brief(NoOp)
    /\ UNCHANGED <<internal_store, gauges, held>>

new(enable) ==
    /\ ~alive
    /\ alive' = TRUE
    /\ enable_cached_safety_data' = enable
    /\ cached_safety_data' = None
    /\ lastOp' = OpT("new", None, "ok", None, <<>>, <<CacheIs(None)>>)
    /\ prevOp' = Brief(NoOp)
    /\ UNCHANGED <<internal_store, gauges, held>>

\* ------------------------------------------------------------ drop
\* The owner drops the instance (the process stops); the backend stays.
drop ==
    /\ alive
    /\ alive' = FALSE
    /\ enable_cached_safety_data' = FALSE
    /\ cached_safety_data' = None
    /\ lastOp' = Op("drop", None, "ok", None, <<>>)
    /\ prevOp' = Brief(NoOp)
    /\ UNCHANGED <<internal_store, gauges, held>>

\* ------------------------------------------------------------ internal_store
\* A write to the backend's safety data that does not go through
\* set_safety_data: the testing accessor internal_store(), or another holder
\* of the same backend.
external_write(data) ==
    /\ internal_store' = [internal_store EXCEPT ![SAFETY_DATA] = Some(data)]
    /\ held' = held \cup {data}
    /\ lastOp' = Op("external_write", Some(data), "ok", None, <<>>)
    /\ prevOp' = Brief(NoOp)
    /\ UNCHANGED <<alive, enable_cached_safety_data, cached_safety_data, gauges>>

\* ------------------------------------------------------------ specifications
Construct(authors, waypoints, failures) ==
    \/ \E a \in authors, ck \in ConsensusKeys, ek \in ExecutionKeys, w \in waypoints,
          enable \in BOOLEAN, fails \in failures :
            initialize(a, ck, ek, w, enable, fails)
    \/ \E enable \in BOOLEAN : new(enable)
    \/ drop

\* Every operation, with every input.
Next ==
    \/ Construct(Authors, Waypoints, FailureSets)
    \/ \E data \in SafetyDataValues, fail \in BOOLEAN : set_safety_data(data, fail)
    \/ \E fail \in BOOLEAN : safety_data(fail)
    \/ \E fail \in BOOLEAN : waypoint(fail)
    \/ \E w \in Waypoints, fail \in BOOLEAN : set_waypoint(w, fail)
    \/ \E fail \in BOOLEAN : author(fail)
    \/ \E version \in KeyVersions, fail \in BOOLEAN :
          consensus_key_for_version(version, fail)
    \/ \E fail \in BOOLEAN : execution_public_key(fail)
    \/ \E key_name \in KeyNames, key_version \in KeyVersions, message \in Messages,
          fail \in BOOLEAN : sign(key_name, key_version, message, fail)
    \/ \E data \in SafetyDataValues : external_write(data)

Spec == Init /\ [][Next]_vars

\* The safety data alone: its operations and a writer behind the instance's
\* back; the instance comes from new or from an initialize.
NextSafetyData ==
    \/ Construct(Authors, {WaypointNew(0)}, FailureSets)
    \/ \E data \in SafetyDataValues, fail \in BOOLEAN : set_safety_data(data, fail)
    \/ \E fail \in BOOLEAN : safety_data(fail)
    \/ \E data \in SafetyDataValues : external_write(data)

SpecSafetyData == Init /\ [][NextSafetyData]_vars

\* The same with the instances the only writers of the backend.
NextSoleWriter ==
    \/ Construct(Authors, {WaypointNew(0)}, FailureSets)
    \/ \E data \in SafetyDataValues, fail \in BOOLEAN : set_safety_data(data, fail)
    \/ \E fail \in BOOLEAN : safety_data(fail)

SpecSoleWriter == Init /\ [][NextSoleWriter]_vars

\* The waypoint alone.
NextWaypoint ==
    \/ Construct(Authors, Waypoints, FailureSets)
    \/ \E fail \in BOOLEAN : waypoint(fail)
    \/ \E w \in Waypoints, fail \in BOOLEAN : set_waypoint(w, fail)

SpecWaypoint == Init /\ [][NextWaypoint]_vars

\* initialize and the reads of what it leaves in the backend.
NextInitialize ==
    \/ Construct(Authors, Waypoints, FailureSets)
    \/ \E fail \in BOOLEAN : safety_data(fail)
    \/ \E fail \in BOOLEAN : waypoint(fail)
    \/ \E fail \in BOOLEAN : author(fail)
    \/ \E fail \in BOOLEAN : execution_public_key(fail)

SpecInitialize == Init /\ [][NextInitialize]_vars

\* The operations of an instance on a backend that initialize filled without
\* a failure.
NextOperations ==
    \/ Construct({"A1"}, {WaypointNew(0)}, {{}})
    \/ \E data \in SafetyDataValues, fail \in BOOLEAN : set_safety_data(data, fail)
    \/ \E fail \in BOOLEAN : safety_data(fail)
    \/ \E fail \in BOOLEAN : waypoint(fail)
    \/ \E w \in Waypoints, fail \in BOOLEAN : set_waypoint(w, fail)
    \/ \E fail \in BOOLEAN : author(fail)
    \/ \E version \in KeyVersions, fail \in BOOLEAN :
          consensus_key_for_version(version, fail)
    \/ \E fail \in BOOLEAN : execution_public_key(fail)
    \/ \E key_name \in KeyNames, key_version \in KeyVersions, message \in Messages,
          fail \in BOOLEAN : sign(key_name, key_version, message, fail)

SpecOperations == Init /\ [][NextOperations]_vars

\* ================================================================== claims
ReadOf(name, outcome) == <<BackendCall("get", name, outcome)>>
Stored(name) == internal_store[name]

\* The last call was safety_data, right after a set_safety_data with `result`.
ReadAfterSet(result) ==
    /\ lastOp.op = "safety_data"
    /\ prevOp.op = "set_safety_data"
    /\ prevOp.result = result

\* C1: a set_safety_data whose write the backend rejects returns an error,
\* and the safety_data call right after it reads the backend (it does not
\* answer from the cache) and, when it succeeds, returns the record the
\* backend holds, which is not the rejected data unless the two are equal.
C1_RejectedWriteIsNotServed ==
    /\ (lastOp.op = "set_safety_data" /\ lastOp.events[1].outcome = "err")
          => lastOp.result = "err"
    /\ ReadAfterSet("err") =>
          /\ lastOp.events = ReadOf(SAFETY_DATA, lastOp.result)
          /\ lastOp.result = "ok" =>
                /\ lastOp.value = Stored(SAFETY_DATA)
                /\ prevOp.arg # Stored(SAFETY_DATA) => lastOp.value # prevOp.arg

C1_Witness ==
    /\ ReadAfterSet("err")
    /\ enable_cached_safety_data
    /\ lastOp.result = "ok"
    /\ lastOp.value # prevOp.arg

\* C2: in both caching modes, the safety_data call right after a successful
\* set_safety_data(d) returns exactly d, and succeeds unless its own backend
\* read fails.
C2_WriteThenReadReturnsData ==
    ReadAfterSet("ok") =>
        /\ lastOp.arg = Some(FALSE) => lastOp.result = "ok"
        /\ lastOp.result = "ok" => lastOp.value = prevOp.arg

C2_Witness ==
    /\ ReadAfterSet("ok")
    /\ lastOp.result = "ok"
    /\ lastOp.value = prevOp.arg
    /\ lastOp.value # Some(DefaultSafetyData)
    /\ enable_cached_safety_data

\* C3: with caching enabled and no writer but the instance, a Known cache
\* equals the backend's safety-data record.
C3_CacheEqualsBackend ==
    (alive /\ enable_cached_safety_data /\ IsSome(cached_safety_data))
        => cached_safety_data = Stored(SAFETY_DATA)

C3_Witness ==
    /\ alive /\ enable_cached_safety_data
    /\ IsSome(cached_safety_data)
    /\ cached_safety_data # Some(DefaultSafetyData)
    /\ lastOp.op = "safety_data" /\ lastOp.events # <<>>

\* The events of a call hold no backend error.
NoError(events) ==
    \A i \in 1..Len(events) : events[i].outcome # "err"

\* C4: an initialize whose consensus-key import reports KeyAlreadyExists
\* returns successfully and leaves every record of the backend as it was.
C4_ReinitializeLeavesBackend ==
    [][(/\ lastOp'.op = "initialize"
        /\ lastOp'.events[1] = BackendCall("import", CONSENSUS_KEY, "exists")
        /\ NoError(lastOp'.events))
          => (lastOp'.result = "ok" /\ internal_store' = internal_store)]_vars

\* A backend request of initialize that ended in an error other than the
\* consensus key's KeyAlreadyExists.
InitError(e) ==
    /\ e.ev = "backend"
    /\ \/ e.outcome = "err"
       \/ e.outcome = "exists" /\ e.name # CONSENSUS_KEY

\* C5: a backend error in initialize, other than KeyAlreadyExists from the
\* consensus-key import, is fatal: no instance is returned and no backend
\* request follows the failing one.
C5_InitializeErrorIsFatal ==
    lastOp.op = "initialize" =>
        \A i \in 1..Len(lastOp.events) :
            InitError(lastOp.events[i]) =>
                /\ lastOp.result = "panic"
                /\ ~alive
                /\ i = Len(lastOp.events)

\* C6: a successful safety_data returns a record the backend has held.
C6_ReturnedValueWasHeld ==
    (lastOp.op = "safety_data" /\ lastOp.result = "ok")
        => (IsSome(lastOp.value) /\ lastOp.value \subseteq held)

C6_Witness ==
    /\ ReadAfterSet("err")
    /\ ~(prevOp.arg \subseteq held)
    /\ lastOp.result = "ok"
    /\ lastOp.value \subseteq held

\* C7: with caching disabled, safety_data reads the backend on every call
\* and a successful call returns the record the backend holds then, also
\* when another writer has replaced it.
C7_UncachedReadIsCurrent ==
    (lastOp.op = "safety_data" /\ alive /\ ~enable_cached_safety_data) =>
        /\ lastOp.events = ReadOf(SAFETY_DATA, lastOp.result)
        /\ lastOp.result = "ok" => lastOp.value = Stored(SAFETY_DATA)

C7_Witness ==
    /\ lastOp.op = "safety_data" /\ lastOp.result = "ok"
    /\ alive /\ ~enable_cached_safety_data
    /\ prevOp.op = "external_write"
    /\ lastOp.value = prevOp.arg
    /\ IsSome(cached_safety_data)
    /\ cached_safety_data # lastOp.value

\* C8: with caching enabled and the cache Known(d), safety_data returns d,
\* makes no backend request, leaves backend and cache as they were, and
\* succeeds also when the backend would fail a request.
C8_CacheHitTouchesNothing ==
    [][(/\ lastOp'.op = "safety_data"
        /\ enable_cached_safety_data
        /\ IsSome(cached_safety_data))
          => (/\ lastOp'.result = "ok"
              /\ lastOp'.value = cached_safety_data
              /\ lastOp'.events = <<>>
              /\ internal_store' = internal_store
              /\ cached_safety_data' = cached_safety_data)]_vars

C8_Witness ==
    /\ lastOp.op = "safety_data"
    /\ lastOp.arg = Some(TRUE)
    /\ lastOp.result = "ok"
    /\ lastOp.events = <<>>
    /\ lastOp.value = cached_safety_data

\* The audit records among the events of a call.
AuditIndexes(events) ==
    {i \in 1..Len(events) : events[i].ev = "log"}

\* C9: set_waypoint(w) emits the waypoint-update audit record once, after
\* the backend accepted the write; when the write fails it returns the
\* error, emits no audit record and the stored waypoint is as before.
C9_AuditOnlyAfterAcceptedWrite ==
    [][lastOp'.op = "set_waypoint" =>
        LET ev == lastOp'.events
            w == Unwrap(lastOp'.arg)
        IN  /\ ev[1] = BackendCall("set", WAYPOINT, lastOp'.result)
            /\ lastOp'.result = "ok" =>
                  /\ AuditIndexes(ev) = {2}
                  /\ ev[2] = LogEntry("info", "waypoint_update", w.version)
                  /\ internal_store'[WAYPOINT] = Some(w)
            /\ lastOp'.result = "err" =>
                  /\ AuditIndexes(ev) = {}
                  /\ internal_store' = internal_store]_vars

C9_Witness ==
    /\ lastOp.op = "set_waypoint"
    /\ lastOp.result = "ok"
    /\ AuditIndexes(lastOp.events) = {2}
    /\ Stored(WAYPOINT) = lastOp.arg

\* C10: after a successful set_waypoint(w) the waypoint-version counter is
\* w's version, and the waypoint call right after it reads the backend and
\* returns w.
C10_WaypointReadsBack ==
    /\ (lastOp.op = "set_waypoint" /\ lastOp.result = "ok")
          => gauges.waypoint_version = Unwrap(lastOp.arg).version
    /\ (lastOp.op = "waypoint" /\ prevOp.op = "set_waypoint" /\ prevOp.result = "ok") =>
          /\ lastOp.events = ReadOf(WAYPOINT, lastOp.result)
          /\ lastOp.arg = Some(FALSE) => lastOp.result = "ok"
          /\ lastOp.result = "ok" =>
                /\ lastOp.value = prevOp.arg
                /\ gauges.waypoint_version = Unwrap(lastOp.value).version

C10_Witness ==
    /\ lastOp.op = "waypoint" /\ lastOp.result = "ok"
    /\ prevOp.op = "set_waypoint" /\ prevOp.result = "ok"
    /\ lastOp.value = prevOp.arg
    /\ Unwrap(lastOp.value).version = MaxVersion
    /\ gauges.waypoint_version = MaxVersion

\* The last call was an initialize that returned an instance and whose import
\* of the consensus key the backend accepted: the backend held no key.
FirstInitialize(o) ==
    /\ o.op = "initialize"
    /\ o.result = "ok"
    /\ o.events[1] = BackendCall("import", CONSENSUS_KEY, "ok")

\* The record is SafetyData(1, 0, 0, 0, None).
IsInitialSafetyData(o) ==
    /\ IsSome(o)
    /\ Unwrap(o).epoch = 1
    /\ Unwrap(o).last_voted_round = 0
    /\ Unwrap(o).preferred_round = 0
    /\ Unwrap(o).one_chain_round = 0
    /\ Unwrap(o).last_vote = None

\* C11: when initialize(A, K1, K2, W0, caching) returns an instance on a
\* backend that held no key, the backend holds SafetyData(1, 0, 0, 0, None),
\* W0 and A, the cache holds that safety data and equals the record written,
\* and a safety_data, waypoint or author call that comes next and whose read
\* the backend serves returns SafetyData(1, 0, 0, 0, None), W0 and A.
C11_InitializeThenRead ==
    [][FirstInitialize(lastOp) =>
        /\ IsInitialSafetyData(Stored(SAFETY_DATA))
        /\ Stored(WAYPOINT) = Some(Unwrap(lastOp.arg).waypoint)
        /\ Stored(OWNER_ACCOUNT) = Some(Unwrap(lastOp.arg).author)
        /\ enable_cached_safety_data =>
              /\ IsInitialSafetyData(cached_safety_data)
              /\ cached_safety_data = Stored(SAFETY_DATA)
        /\ (lastOp'.op = "safety_data" /\ lastOp'.arg = Some(FALSE)) =>
              /\ lastOp'.result = "ok"
              /\ IsInitialSafetyData(lastOp'.value)
        /\ (lastOp'.op = "waypoint" /\ lastOp'.arg = Some(FALSE)) =>
              /\ lastOp'.result = "ok"
              /\ lastOp'.value = Some(Unwrap(lastOp.arg).waypoint)
        /\ (lastOp'.op = "author" /\ lastOp'.arg = Some(FALSE)) =>
              /\ lastOp'.result = "ok"
              /\ lastOp'.value = Some(Unwrap(lastOp.arg).author)
    ]_vars

C11_Witness ==
    /\ lastOp.op = "author"
    /\ prevOp.op = "initialize"
    /\ prevOp.result = "ok"
    /\ lastOp.value = Some("A2")
    /\ prevOp.arg = Some([author |-> "A2", waypoint |-> WaypointNew(MaxVersion)])
    /\ Stored(WAYPOINT) = Some(WaypointNew(MaxVersion))
    /\ enable_cached_safety_data
    /\ IsInitialSafetyData(cached_safety_data)

\* The three safety-data gauges show the fields of the record `o`.
GaugesShow(o) ==
    /\ IsSome(o)
    /\ gauges.epoch = Unwrap(o).epoch
    /\ gauges.last_voted_round = Unwrap(o).last_voted_round
    /\ gauges.preferred_round = Unwrap(o).preferred_round

\* C12 as claimed: after a set_safety_data(d) that returns success the gauges
\* show d's fields, and whenever safety_data returns a record the gauges show
\* the fields of that record.
C12_GaugesShowReturnedValue ==
    /\ (lastOp.op = "set_safety_data" /\ lastOp.result = "ok") => GaugesShow(lastOp.arg)
    /\ (lastOp.op = "safety_data" /\ lastOp.result = "ok") => GaugesShow(lastOp.value)

\* C12 amended: after every set_safety_data(d), accepted or rejected, the
\* gauges show d's fields; a safety_data call right after an accepted
\* set_safety_data returns a record whose fields the gauges show, and one
\* right after a rejected set_safety_data(d) finds the gauges showing d, not
\* necessarily the record it returns.
C12_GaugesShowLastWriteAttempt ==
    /\ lastOp.op = "set_safety_data" => GaugesShow(lastOp.arg)
    /\ (ReadAfterSet("ok") /\ lastOp.result = "ok") => GaugesShow(lastOp.value)
    /\ ReadAfterSet("err") => GaugesShow(prevOp.arg)

\* A rejected write moved the gauges away from the record safety_data returns.
C12_Witness ==
    /\ ReadAfterSet("err")
    /\ lastOp.result = "ok"
    /\ GaugesShow(prevOp.arg)
    /\ ~GaugesShow(lastOp.value)

\* C13: set_safety_data(data) issues one backend write of the safety data and
\* then sets the cache: to data when the backend accepted the write (the call
\* returns success), to nothing when it failed (the call returns an error),
\* so that after a failure the cache holds neither the value it had nor data.
C13_WriteThenCache ==
    lastOp.op = "set_safety_data" =>
        /\ Len(lastOp.events) = 1
        /\ lastOp.events[1].kind = "set"
        /\ lastOp.events[1].name = SAFETY_DATA
        /\ lastOp.events[1].outcome = "ok" =>
              /\ cached_safety_data = lastOp.arg
              /\ Stored(SAFETY_DATA) = lastOp.arg
              /\ lastOp.result = "ok"
        /\ lastOp.events[1].outcome = "err" =>
              /\ cached_safety_data = None
              /\ lastOp.result = "err"

C13_Witness ==
    /\ lastOp.op = "set_safety_data"
    /\ lastOp.result = "err"
    /\ enable_cached_safety_data
    /\ cached_safety_data = None
    /\ IsSome(Stored(SAFETY_DATA))
    /\ lastOp.arg # Stored(SAFETY_DATA)

\* The assignment at position i of the trace makes the in-memory copy hold a
\* record, and the entry before it is not the backend's confirmation of that
\* record.
Unconfirmed(trace, i) ==
    /\ trace[i].ev = "cache"
    /\ IsSome(trace[i].value)
    /\ ~(i > 1 /\ trace[i - 1] = Confirmed(trace[i].value))

\* C14 as claimed: an instance built by initialize or new starts with the
\* cache unknown, and in every call every assignment that makes the cache
\* known comes right after the backend accepted a write of that record or
\* returned it from a read.
C14_KnownOnlyAfterConfirmation ==
    /\ (lastOp.op \in {"initialize", "new"} /\ lastOp.trace # <<>>)
          => lastOp.trace[1] = CacheIs(None)
    /\ \A i \in DOMAIN lastOp.trace : ~Unconfirmed(lastOp.trace, i)

\* C14 amended: new builds its instance with the cache unknown; initialize
\* builds its instance with the cache already holding the default record,
\* before that record is written, and returns the instance only after the
\* backend accepted the write of the record the cache holds; every other
\* assignment that makes the cache known, in any call, comes right after the
\* backend accepted a write of that record or returned it from a read.
C14_KnownBeforeWriteOnlyInsideInitialize ==
    /\ lastOp.op = "new" => (lastOp.trace = <<CacheIs(None)>> /\ cached_safety_data = None)
    /\ (lastOp.op = "initialize" /\ lastOp.trace # <<>>) =>
          /\ lastOp.trace[1] = CacheIs(Some(DefaultSafetyData))
          /\ lastOp.result = "ok" =>
                /\ IsSome(cached_safety_data)
                /\ \E i \in DOMAIN lastOp.trace :
                      lastOp.trace[i] = Confirmed(cached_safety_data)
          /\ lastOp.result # "ok" => ~alive
    /\ \A i \in DOMAIN lastOp.trace :
          Unconfirmed(lastOp.trace, i) => (lastOp.op = "initialize" /\ i = 1)

C14_Witness ==
    /\ lastOp.op = "initialize"
    /\ lastOp.result = "panic"
    /\ lastOp.trace = <<CacheIs(Some(DefaultSafetyData)), CacheIs(None)>>
    /\ Stored(SAFETY_DATA) = None

\* C15: on an instance with caching enabled and the cache unknown, safety_data
\* issues exactly one backend read of the safety data; when the read succeeds
\* the cache holds the record read and the call returns it; when it fails the
\* call returns an error and the cache stays unknown, so the next safety_data
\* call reads the backend again.
C15_MissReadsOnce ==
    [][(/\ lastOp'.op = "safety_data"
        /\ alive
        /\ enable_cached_safety_data
        /\ cached_safety_data = None) =>
            /\ lastOp'.events = ReadOf(SAFETY_DATA, lastOp'.result)
            /\ lastOp'.result = "ok" =>
                  /\ IsSome(cached_safety_data')
                  /\ cached_safety_data' = Stored(SAFETY_DATA)
                  /\ lastOp'.value = cached_safety_data'
            /\ lastOp'.result = "err" =>
                  /\ lastOp'.value = None
                  /\ cached_safety_data' = None
    ]_vars

\* A miss whose read failed although the backend holds a record, on an
\* instance that caches.
C15_Witness ==
    /\ lastOp.op = "safety_data"
    /\ lastOp.result = "err"
    /\ lastOp.events = ReadOf(SAFETY_DATA, "err")
    /\ alive
    /\ enable_cached_safety_data
    /\ cached_safety_data = None
    /\ IsSome(Stored(SAFETY_DATA))

\* The five writes of initialize, in the order of the claim.
InitializeOrder ==
    <<[kind |-> "import", name |-> CONSENSUS_KEY],
      [kind |-> "import", name |-> EXECUTION_KEY],
      [kind |-> "set", name |-> OWNER_ACCOUNT],
      [kind |-> "set", name |-> SAFETY_DATA],
      [kind |-> "set", name |-> WAYPOINT]>>

IsBackendCall(e) == e.ev = "backend"

\* The records the backend `store` holds are the first n of the order.
HoldsPrefix(store, n) ==
    \A i \in DOMAIN InitializeOrder : IsSome(store[InitializeOrder[i].name]) <=> i <= n

\* C16: on a backend without the consensus key, the backend requests of
\* initialize are a prefix of: import consensus key, import execution key,
\* write owner account, write safety data, write waypoint; every request but
\* the last one issued was accepted; and on a backend that held nothing the
\* records present after the call are a prefix of that order.
C16_InitializeWritesInOrder ==
    [][(lastOp'.op = "initialize" /\ internal_store[CONSENSUS_KEY] = None) =>
        LET calls == SelectSeq(lastOp'.events, IsBackendCall) IN
            /\ Len(calls) <= Len(InitializeOrder)
            /\ \A i \in DOMAIN calls :
                  /\ calls[i].kind = InitializeOrder[i].kind
                  /\ calls[i].name = InitializeOrder[i].name
                  /\ i < Len(calls) => calls[i].outcome = "ok"
            /\ HoldsPrefix(internal_store, 0) =>
                  \E n \in 0..Len(InitializeOrder) : HoldsPrefix(internal_store', n)
    ]_vars

\* C17 as claimed, for the calls in which no backend request fails: whenever
\* such an initialize returns an instance, whatever an earlier initialize
\* left in the backend, the backend holds all five records.
C17_InitializeLeavesAllRecords ==
    (lastOp.op = "initialize" /\ lastOp.result = "ok" /\ NoError(lastOp.events))
        => \A n \in RecordNames : IsSome(Stored(n))

\* C17 amended: whenever initialize returns an instance the backend holds the
\* safety data and the waypoint, and the safety_data and waypoint calls that
\* come next succeed when the backend serves them; when the backend accepted
\* the call's import of the consensus key it holds all five records, and the
\* author and execution_public_key calls that come next succeed as well.
C17_InitializeLeavesWhatItWrote ==
    [][(lastOp.op = "initialize" /\ lastOp.result = "ok") =>
        /\ alive
        /\ IsSome(Stored(SAFETY_DATA))
        /\ IsSome(Stored(WAYPOINT))
        /\ (lastOp'.op \in {"safety_data", "waypoint"} /\ lastOp'.arg = Some(FALSE))
              => (lastOp'.result = "ok" /\ IsSome(lastOp'.value))
        /\ FirstInitialize(lastOp) =>
              /\ \A n \in RecordNames : IsSome(Stored(n))
              /\ (lastOp'.op \in {"author", "execution_public_key"}
                      /\ lastOp'.arg = Some(FALSE))
                    => (lastOp'.result = "ok" /\ IsSome(lastOp'.value))
    ]_vars

\* An initialize on a backend that an earlier initialize left with the
\* consensus key only returned an instance, and its author call fails
\* although the backend served the read.
C17_Witness ==
    /\ lastOp.op = "author"
    /\ lastOp.arg = Some(FALSE)
    /\ lastOp.result = "err"
    /\ prevOp.op = "initialize"
    /\ prevOp.result = "ok"
    /\ IsSome(Stored(CONSENSUS_KEY))
    /\ Stored(EXECUTION_KEY) = None
    /\ IsSome(Stored(SAFETY_DATA))
    /\ IsSome(Stored(WAYPOINT))

ReadOnlyOperations ==
    {"author", "consensus_key_for_version", "execution_public_key", "sign", "waypoint"}

\* Every record of the backend but `name` is as before the step.
OnlyRecordChanges(name) ==
    \A n \in RecordNames \ {name} : internal_store'[n] = internal_store[n]

InstanceOperations ==
    ReadOnlyOperations \cup {"safety_data", "set_safety_data", "set_waypoint"}

\* C19: one call of author, consensus_key_for_version, execution_public_key,
\* sign, safety_data, set_safety_data, waypoint or set_waypoint issues at most
\* one backend request, and when that request fails the call returns an
\* error: no second request follows a failed one.
C19_AtMostOneRequest ==
    lastOp.op \in InstanceOperations =>
        LET calls == SelectSeq(lastOp.events, IsBackendCall) IN
            /\ Len(calls) <= 1
            /\ (Len(calls) = 1 /\ calls[1].outcome # "ok") => lastOp.result = "err"
            /\ lastOp.result = "err" => (Len(calls) = 1 /\ calls[1].outcome = "err")

\* A set_waypoint the backend rejected: one request, an error returned.
C19_Witness ==
    /\ lastOp.op = "set_waypoint"
    /\ lastOp.result = "err"
    /\ lastOp.events = <<BackendCall("set", WAYPOINT, "err")>>
    /\ Stored(WAYPOINT) # lastOp.arg

\* C20 as claimed: the cache of an instance with caching disabled is unknown
\* in every state.
C20_DisabledCacheIsUnknown ==
    (alive /\ ~enable_cached_safety_data) => cached_safety_data = None

\* C20 amended: on an instance with caching disabled safety_data reads the
\* backend and leaves the cache as it is, whatever it holds; the cache is
\* unknown after new and after a rejected set_safety_data, and holds the
\* record written after initialize and after an accepted set_safety_data.
C20_DisabledCacheIsNotServed ==
    [][(alive' /\ ~enable_cached_safety_data') =>
        /\ lastOp'.op = "safety_data" =>
              /\ cached_safety_data' = cached_safety_data
              /\ lastOp'.events = ReadOf(SAFETY_DATA, lastOp'.result)
              /\ lastOp'.result = "ok" => lastOp'.value = Stored(SAFETY_DATA)
        /\ lastOp'.op = "set_safety_data" =>
              cached_safety_data' = IF lastOp'.result = "ok" THEN lastOp'.arg ELSE None
        /\ lastOp'.op = "initialize" =>
              /\ IsInitialSafetyData(cached_safety_data')
              /\ cached_safety_data' = internal_store'[SAFETY_DATA]
        /\ lastOp'.op = "new" => cached_safety_data' = None
    ]_vars

\* With caching disabled the cache holds a record that is not the backend's,
\* and safety_data returned the backend's.
C20_Witness ==
    /\ alive
    /\ ~enable_cached_safety_data
    /\ IsSome(cached_safety_data)
    /\ lastOp.op = "safety_data"
    /\ lastOp.value = Stored(SAFETY_DATA)
    /\ lastOp.value # cached_safety_data

====
